---- MODULE Spec2Model ----
(***************************************************************************)
(* A model of packet_handling.h: PacketBuffer (the byte view), PacketField *)
(* (a field descriptor) and Packet (the record: the name map `fields`, the *)
(* id sequence `fields_by_id`, the cursor `cur_length`).                   *)
(*                                                                         *)
(* uint32_t quantities (offsets, lengths, the cursor, capacities, values)  *)
(* are kept at their full width as a pair of 16-bit halves [hi, lo],       *)
(* because the 32-bit sums of the code wrap.                               *)
(***************************************************************************)
EXTENDS Integers, Sequences, FiniteSets, TLC

\* ------------------------------------------------------------------------
\* Bounds of the model
\* ------------------------------------------------------------------------
\* bytes of the caller's first buffer (9: the u8,u32,u32 example of the spec)
SizeA == 9
\* bytes of the caller's second, smaller buffer (the target of a rebind)
SizeB == 2
\* declarations per Packet explored by the declaration machine
MaxFields == 2
\* largest explicit length argument of the small length inputs
MaxLen == 1

\* ------------------------------------------------------------------------
\* uint8_t / uint32_t arithmetic
\* ------------------------------------------------------------------------
B8 == 256
W16 == B8 * B8

U32(n) == [hi |-> n \div W16, lo |-> n % W16]
Zero == U32(0)
\* 2^32 - n, for 0 < n <= W16
U32Neg(n) == [hi |-> W16 - 1, lo |-> W16 - n]
IsSmall(a) == a.hi = 0
Add32(a, b) ==
    LET s == a.lo + b.lo
    IN  [hi |-> (a.hi + b.hi + s \div W16) % W16, lo |-> s % W16]
Sub32(a, b) ==
    LET borrow == IF a.lo < b.lo THEN 1 ELSE 0
    IN  [hi |-> (a.hi - b.hi - borrow + W16) % W16, lo |-> (a.lo - b.lo + W16) % W16]
Lt32(a, b) == a.hi < b.hi \/ (a.hi = b.hi /\ a.lo < b.lo)
Le32(a, b) == a = b \/ Lt32(a, b)
\* the sum a + b of the integers (not wrapped) compared with c
SumExceeds(a, b, c) ==
    LET s == a.lo + b.lo
        h == a.hi + b.hi + s \div W16
    IN  h >= W16 \/ Lt32(c, [hi |-> h, lo |-> s % W16])

\* ------------------------------------------------------------------------
\* Memory: the caller's buffers, and pointers into them
\* ------------------------------------------------------------------------
Buffers == {"A", "B"}
AllocSize(b) == IF b = "A" THEN SizeA ELSE SizeB
NULL == [buf |-> "NULL", off |-> 0]
Ptr(b, o) == [buf |-> b, off |-> o]

\* &buffer[offset] lies inside the allocation buffer points into
InAlloc(buffer, offset) ==
    /\ buffer # NULL
    /\ IsSmall(offset)
    /\ buffer.off + offset.lo < AllocSize(buffer.buf)

\* buffer[offset] = byte; a store outside the allocation is undefined and
\* leaves the modelled memory as it is
Store(m, buffer, offset, byte) ==
    IF InAlloc(buffer, offset)
    THEN [m EXCEPT ![buffer.buf][buffer.off + offset.lo + 1] = byte % B8]
    ELSE m
\* buffer[offset]; a load outside the allocation is undefined: it yields u,
\* a byte the caller of this operator draws nondeterministically
Load(m, buffer, offset, u) ==
    IF InAlloc(buffer, offset)
    THEN m[buffer.buf][buffer.off + offset.lo + 1]
    ELSE u

\* ------------------------------------------------------------------------
\* PacketBuffer
\* ------------------------------------------------------------------------
PacketBuffer(buffer_addr, buffer_size, big_endian) ==
    [max_len |-> buffer_size, use_big_endian |-> big_endian, buffer |-> buffer_addr]

\* PacketBuffer::setup_buffer: [ok, msg_buffer]
PacketBuffer_setup_buffer(B, new_buffer, buffer_size, big_endian) ==
    IF new_buffer # NULL /\ Lt32(Zero, buffer_size)
    THEN [ok |-> TRUE, msg_buffer |-> PacketBuffer(new_buffer, buffer_size, big_endian)]
    ELSE [ok |-> FALSE, msg_buffer |-> B]

get_uint8(m, B, offset, u) == U32(Load(m, B.buffer, offset, u))

get_uint16(m, B, offset, u) ==
    LET value == Load(m, B.buffer, offset, u)
        next == Load(m, B.buffer, Add32(offset, U32(1)), u)
    IN  IF B.use_big_endian # 0
        THEN U32(value * B8 + next)
        ELSE U32(value + next * B8)

get_uint32(m, B, offset, u) ==
    IF B.use_big_endian # 0
    THEN [lo |-> get_uint16(m, B, Add32(offset, U32(2)), u).lo,
          hi |-> get_uint16(m, B, offset, u).lo]
    ELSE [lo |-> get_uint16(m, B, offset, u).lo,
          hi |-> get_uint16(m, B, Add32(offset, U32(2)), u).lo]

set_uint8(m, B, offset, value) == Store(m, B.buffer, offset, value.lo % B8)

set_uint16(m, B, offset, value) ==
    LET next == Add32(offset, U32(1))
    IN  IF B.use_big_endian # 0
        THEN Store(Store(m, B.buffer, offset, (value.lo \div B8) % B8),
                   B.buffer, next, value.lo % B8)
        ELSE Store(Store(m, B.buffer, offset, value.lo % B8),
                   B.buffer, next, (value.lo \div B8) % B8)

\* set_uint32 with the flag ignored in the order of the two halves: the low
\* half always goes to the lower offset
set_uint32_low_half_first(m, B, offset, value) ==
    set_uint16(set_uint16(m, B, offset, U32(value.lo)),
               B, Add32(offset, U32(2)), U32(value.hi))

set_uint32(m, B, offset, value) ==
    IF B.use_big_endian # 0
    THEN set_uint16(set_uint16(m, B, Add32(offset, U32(2)), U32(value.lo)),
                    B, offset, U32(value.hi))
    ELSE set_uint16(set_uint16(m, B, offset, U32(value.lo)),
                    B, Add32(offset, U32(2)), U32(value.hi))

dummy_get(m, B, offset, u) == Zero
dummy_set(m, B, offset, value) == m

\* PacketBuffer::get_uint8_ptr: &buffer[offset]; an offset of 2^16 or more
\* gives an address beyond every allocation of the model
get_uint8_ptr(B, offset) ==
    IF B.buffer = NULL THEN NULL
    ELSE Ptr(B.buffer.buf,
             IF IsSmall(offset) THEN B.buffer.off + offset.lo ELSE W16 + offset.lo)

\* (msg_buffer.*f.get_val)(offset) and (msg_buffer.*f.set_val)(offset, value)
CallGet(fn, m, B, offset, u) ==
    CASE fn = "get_uint8" -> get_uint8(m, B, offset, u)
      [] fn = "get_uint16" -> get_uint16(m, B, offset, u)
      [] fn = "get_uint32" -> get_uint32(m, B, offset, u)
      [] OTHER -> dummy_get(m, B, offset, u)
CallSet(fn, m, B, offset, value) ==
    CASE fn = "set_uint8" -> set_uint8(m, B, offset, value)
      [] fn = "set_uint16" -> set_uint16(m, B, offset, value)
      [] fn = "set_uint32" -> set_uint32(m, B, offset, value)
      [] OTHER -> dummy_set(m, B, offset, value)
\* the number of bytes an accessor touches, from its offset on
AccessWidth(fn) ==
    CASE fn \in {"get_uint8", "set_uint8"} -> 1
      [] fn \in {"get_uint16", "set_uint16"} -> 2
      [] fn \in {"get_uint32", "set_uint32"} -> 4
      [] OTHER -> 0

\* ------------------------------------------------------------------------
\* PacketField
\* ------------------------------------------------------------------------
NumericTypes == {"uint8_t", "int8_t", "uint16_t", "int16_t", "uint32_t", "int32_t"}
PointerTypes == {"uint8_t*", "int8_t*", "char*"}
Types == NumericTypes \cup PointerTypes

is_pointer_type(T) == T \in PointerTypes
sizeof(T) ==
    CASE T \in {"uint8_t", "int8_t"} -> U32(1)
      [] T \in {"uint16_t", "int16_t"} -> U32(2)
      [] T \in {"uint32_t", "int32_t"} -> U32(4)
      [] OTHER -> U32(8)

PacketField(starts_at_offset, len, id) ==
    [offset |-> starts_at_offset, length |-> len, field_id |-> id,
     type |-> "0", pointer |-> FALSE,
     get_val |-> "dummy_get", set_val |-> "dummy_set", get_ptr |-> "dummy_ptr"]

new_PacketField(T, offset, len, field_id) ==
    LET f == [PacketField(offset, len, field_id)
                 EXCEPT !.type = T, !.pointer = is_pointer_type(T)]
    IN  CASE T \in {"uint32_t", "int32_t"} ->
               [f EXCEPT !.get_val = "get_uint32", !.set_val = "set_uint32"]
          [] T \in {"uint16_t", "int16_t"} ->
               [f EXCEPT !.get_val = "get_uint16", !.set_val = "set_uint16"]
          [] T \in {"uint8_t", "int8_t"} ->
               [f EXCEPT !.get_val = "get_uint8", !.set_val = "set_uint8"]
          [] OTHER ->
               [f EXCEPT !.get_ptr = "get_uint8_ptr"]

\* ------------------------------------------------------------------------
\* Packet
\* ------------------------------------------------------------------------
Names == {"", "a", "b"}
NoFields == [n \in {} |-> 0]
\* the empty sub_packets registry
NoPackets == [n \in {} |-> 0]

\* Packet(buffer_addr, buffer_size, big_endian) and Packet()
Packet(buffer_addr, buffer_size, big_endian) ==
    [msg_buffer |-> PacketBuffer(buffer_addr, buffer_size, big_endian),
     cur_length |-> Zero,
     packet_name |-> "(no name)",
     fields |-> NoFields,
     fields_by_id |-> <<>>,
     sub_packets |-> NoPackets]
DefaultPacket == Packet(NULL, Zero, 0)

Packet_max_length(P) == P.msg_buffer.max_len
Packet_length(P) == P.cur_length
bytes_left(P) == Sub32(P.msg_buffer.max_len, P.cur_length)
field_exists(P, name) == name \in DOMAIN P.fields

\* The outcome of a call: the Packet after it, the value returned, and the
\* exception thrown ("none" when the call returns).  The code throws one
\* exception type; err names the throw statement by the error it reports.
\* A returned value is a tuple of numbers: <<>> for void, <<field_id>>,
\* <<hi, lo>> for a uint32_t, the bytes copied out for a pointer field.
Returns(P, ret) == [packet |-> P, ret |-> ret, err |-> "none"]
Throws(P, err) == [packet |-> P, ret |-> <<>>, err |-> err]

\* the constructor call Packet(buffer_addr, buffer_size, big_endian): the
\* initialiser list stores its arguments and nothing is tested, so the call
\* always returns
new_Packet(buffer_addr, buffer_size, big_endian) ==
    Returns(Packet(buffer_addr, buffer_size, big_endian), <<>>)

\* fields.insert(make_pair(name, f)): the map, and whether it inserted
MapInsert(fields, name, f) ==
    IF name \in DOMAIN fields
    THEN [map |-> fields, second |-> FALSE]
    ELSE [map |-> [n \in DOMAIN fields \cup {name} |->
                      IF n = name THEN f ELSE fields[n]],
          second |-> TRUE]
MapErase(fields, name) == [n \in DOMAIN fields \ {name} |-> fields[n]]

\* Packet::setup_buffer
setup_buffer(P, new_buffer, buffer_size, big_endian) ==
    IF new_buffer # NULL /\ Lt32(Zero, buffer_size)
    THEN LET r == PacketBuffer_setup_buffer(P.msg_buffer, new_buffer, buffer_size, big_endian)
         IN  IF r.ok THEN Returns([P EXCEPT !.msg_buffer = r.msg_buffer], <<>>)
             ELSE Throws(P, "InvalidArgument")
    ELSE Throws(P, "InvalidArgument")

\* add_field with the result of the insertion ignored: the descriptor is
\* appended and the cursor advanced although the name is already declared
add_field_insert_ignored(P, T, name, length) ==
    IF P.msg_buffer.buffer = NULL THEN Throws(P, "UnboundBuffer")
    ELSE IF is_pointer_type(T) /\ length = Zero THEN Throws(P, "MissingLength")
    ELSE IF name = "" THEN Throws(P, "InvalidArgument")
    ELSE
      LET len == IF ~is_pointer_type(T) /\ length = Zero THEN sizeof(T) ELSE length
      IN  IF Le32(Add32(P.cur_length, len), P.msg_buffer.max_len)
          THEN LET field_id == Len(P.fields_by_id)
                   f == new_PacketField(T, P.cur_length, len, field_id)
                   res == MapInsert(P.fields, name, f)
               IN  Returns([P EXCEPT !.fields = res.map,
                                     !.cur_length = Add32(P.cur_length, len),
                                     !.fields_by_id = Append(P.fields_by_id, f)],
                           <<field_id>>)
          ELSE Throws(P, "CapacityExceeded")

\* Packet::add_field<T>(name, length)
add_field(P, T, name, length) ==
    IF P.msg_buffer.buffer = NULL THEN Throws(P, "UnboundBuffer")
    ELSE IF is_pointer_type(T) /\ length = Zero THEN Throws(P, "MissingLength")
    ELSE IF name = "" THEN Throws(P, "InvalidArgument")
    ELSE
      LET len == IF ~is_pointer_type(T) /\ length = Zero THEN sizeof(T) ELSE length
      IN  IF Le32(Add32(P.cur_length, len), P.msg_buffer.max_len)
          THEN LET field_id == Len(P.fields_by_id)
                   f == new_PacketField(T, P.cur_length, len, field_id)
                   res == MapInsert(P.fields, name, f)
               IN  IF res.second
                   THEN Returns([P EXCEPT !.fields = res.map,
                                          !.cur_length = Add32(P.cur_length, len),
                                          !.fields_by_id = Append(P.fields_by_id, f)],
                                <<field_id>>)
                   ELSE Throws(P, "DuplicateField")
          ELSE Throws(P, "CapacityExceeded")

\* the inner loop of copy_fields: the name whose descriptor has this id
NameOfId(source_packet, id) ==
    CHOOSE n \in DOMAIN source_packet.fields : source_packet.fields[n].field_id = id

\* copy_fields with the field_id of the source kept (no renumbering)
RECURSIVE copy_fields_from_keep_id(_, _, _)
copy_fields_from_keep_id(P, source_packet, k) ==
    IF k > Len(source_packet.fields_by_id) THEN Returns(P, <<>>)
    ELSE
      LET f == source_packet.fields_by_id[k]
          name == NameOfId(source_packet, f.field_id)
      IN  IF Le32(Add32(P.cur_length, f.length), P.msg_buffer.max_len)
          THEN LET res == MapInsert(P.fields, name, f)
               IN  IF res.second
                   THEN copy_fields_from_keep_id(
                            [P EXCEPT !.fields = res.map,
                                      !.cur_length = Add32(P.cur_length, f.length),
                                      !.fields_by_id = Append(P.fields_by_id, f)],
                            source_packet, k + 1)
                   ELSE Throws(P, "DuplicateField")
          ELSE Throws(P, "CapacityExceeded")

\* Packet::copy_fields(source_packet), from the k-th field of the source on;
\* each field is committed as it is processed
RECURSIVE copy_fields_from(_, _, _)
copy_fields_from(P, source_packet, k) ==
    IF k > Len(source_packet.fields_by_id) THEN Returns(P, <<>>)
    ELSE
      LET f == source_packet.fields_by_id[k]
          name == NameOfId(source_packet, f.field_id)
      IN  IF Le32(Add32(P.cur_length, f.length), P.msg_buffer.max_len)
          THEN LET field_id == Len(P.fields_by_id)
                   g == [f EXCEPT !.field_id = field_id]
                   res == MapInsert(P.fields, name, g)
               IN  IF res.second
                   THEN copy_fields_from(
                            [P EXCEPT !.fields = res.map,
                                      !.cur_length = Add32(P.cur_length, f.length),
                                      !.fields_by_id = Append(P.fields_by_id, g)],
                            source_packet, k + 1)
                   ELSE Throws(P, "DuplicateField")
          ELSE Throws(P, "CapacityExceeded")
\* copy_fields that commits nothing when a field of the source is rejected
copy_fields_all_or_nothing(P, source_packet) ==
    LET r == copy_fields_from(P, source_packet, 1)
    IN  IF r.err = "none" THEN r ELSE Throws(P, r.err)
copy_fields(P, source_packet) == copy_fields_from(P, source_packet, 1)

\* rename_field that does not test the result of the insert: a field already
\* under new_name is replaced
rename_field_overwrite(P, old_name, new_name) ==
    IF old_name \notin DOMAIN P.fields THEN Throws(P, "UnknownField")
    ELSE LET f == P.fields[old_name]
             others == MapErase(MapErase(P.fields, old_name), new_name)
         IN  Returns([P EXCEPT !.fields = MapInsert(others, new_name, f).map], <<>>)

\* Packet::rename_field(old_name, new_name)
rename_field(P, old_name, new_name) ==
    IF old_name \notin DOMAIN P.fields THEN Throws(P, "UnknownField")
    ELSE LET f == P.fields[old_name]
             res == MapInsert(P.fields, new_name, f)
         IN  IF ~res.second THEN Throws(P, "DuplicateField")
             ELSE Returns([P EXCEPT !.fields = MapErase(res.map, old_name)], <<>>)

\* Packet::adjust_max_length(to_length): PacketBuffer::setup_buffer is called
\* with its default big_endian = 0
adjust_max_length_to(P, to_length) ==
    IF Lt32(to_length, P.msg_buffer.max_len)
    THEN LET r == PacketBuffer_setup_buffer(P.msg_buffer, P.msg_buffer.buffer, to_length, 0)
         IN  IF r.ok THEN Returns([P EXCEPT !.msg_buffer = r.msg_buffer], <<>>)
             ELSE Throws(P, "InvalidArgument")
    ELSE Returns(P, <<>>)

\* Packet::adjust_max_length()
adjust_max_length(P) ==
    IF Lt32(P.cur_length, P.msg_buffer.max_len)
    THEN LET r == PacketBuffer_setup_buffer(P.msg_buffer, P.msg_buffer.buffer, P.cur_length, 0)
         IN  IF r.ok THEN Returns([P EXCEPT !.msg_buffer = r.msg_buffer], <<>>)
             ELSE Throws(P, "InvalidArgument")
    ELSE Returns(P, <<>>)

\* sub_packet without the lookup in the registry: every call creates a new
\* sub-packet and registers it in place of the one registered before
sub_packet_always_new(P, name_of_existing_field) ==
    IF name_of_existing_field \notin DOMAIN P.fields THEN Throws(P, "UnknownField")
    ELSE LET f == P.fields[name_of_existing_field]
         IN  IF ~f.pointer THEN Throws(P, "TypeMismatch")
             ELSE LET packet == [Packet(get_uint8_ptr(P.msg_buffer, f.offset), f.length, 0)
                                    EXCEPT !.packet_name = ""]
                  IN  Returns([P EXCEPT !.sub_packets =
                                  [n \in DOMAIN P.sub_packets \cup {name_of_existing_field} |->
                                      IF n = name_of_existing_field THEN packet
                                      ELSE P.sub_packets[n]]],
                              <<>>)

\* Packet::sub_packet(name_of_existing_field): the sub-packet is registered
\* in P.sub_packets under the field's name, and the reference returned is
\* to that entry
sub_packet(P, name_of_existing_field) ==
    IF name_of_existing_field \notin DOMAIN P.fields THEN Throws(P, "UnknownField")
    ELSE LET f == P.fields[name_of_existing_field]
         IN  IF ~f.pointer THEN Throws(P, "TypeMismatch")
             ELSE IF name_of_existing_field \notin DOMAIN P.sub_packets
             THEN LET packet == [Packet(get_uint8_ptr(P.msg_buffer, f.offset), f.length, 0)
                                    EXCEPT !.packet_name = ""]
                  IN  Returns([P EXCEPT !.sub_packets =
                                  [n \in DOMAIN P.sub_packets \cup {name_of_existing_field} |->
                                      IF n = name_of_existing_field THEN packet
                                      ELSE P.sub_packets[n]]],
                              <<>>)
             ELSE Returns(P, <<>>)

\* Packet::has_sub_packet(field_name)
has_sub_packet(P, field_name) ==
    IF DOMAIN P.sub_packets # {} /\ field_name # ""
    THEN field_name \in DOMAIN P.sub_packets
    ELSE FALSE

\* fields.find(name) / fields_by_id[field_id]: the descriptor a selector
\* resolves to, <<f>>, or <<>> when there is none
ByName(name) == [by |-> "name", name |-> name, field_id |-> 0]
ById(field_id) == [by |-> "id", name |-> "", field_id |-> field_id]
Find(P, sel) ==
    IF sel.by = "name"
    THEN IF sel.name \in DOMAIN P.fields THEN <<P.fields[sel.name]>> ELSE <<>>
    ELSE IF sel.field_id < Len(P.fields_by_id)
         THEN <<P.fields_by_id[sel.field_id + 1]>> ELSE <<>>

\* The outcome of an accessor: the memory after it, the value returned and
\* the exception thrown
Gives(m, ret) == [mem |-> m, ret |-> ret, err |-> "none"]
Fails(m, err) == [mem |-> m, ret |-> <<>>, err |-> err]
\* throw GenericException("... field_index %s not found", ..., field_id):
\* the %s conversion is given the uint32_t field_id and reads a string at
\* that address, which is undefined.  u stands for what the read finds: with
\* u = 0 a string, and the exception is thrown; otherwise the read faults
\* and the process is terminated ("Crashed") with no exception thrown.
ThrowsIndexAsString(m, u) ==
    IF u = 0 THEN Fails(m, "UnknownField") ELSE Fails(m, "Crashed")
\* the throw of an accessor whose selector resolves to no field, when its
\* by-id overload formats the id with %s
NotFound(m, sel, u) ==
    IF sel.by = "id" THEN ThrowsIndexAsString(m, u) ELSE Fails(m, "UnknownField")

\* Packet::get_field_id(name, no_throw).  The throw for a mismatched
\* field_id gives its format four %s conversions and three arguments, and
\* fields_by_id[field_id] is not range-checked: both are undefined, and u
\* stands for what they do, as in ThrowsIndexAsString.
get_field_id(P, name, no_throw, u) ==
    IF name \in DOMAIN P.fields
    THEN LET field_id == P.fields[name].field_id
         IN  IF field_id < Len(P.fields_by_id)
                /\ P.fields_by_id[field_id + 1].field_id = field_id
             THEN Returns(P, <<0, field_id>>)
             ELSE IF u = 0 THEN Throws(P, "WrongFieldId") ELSE Throws(P, "Crashed")
    ELSE IF no_throw = 0 THEN Throws(P, "UnknownField")
         ELSE Returns(P, <<W16 - 1, W16 - 1>>)

\* byte j of the view lies in [offset, offset + length)
InRange(offset, length, j) ==
    /\ Le32(offset, U32(j))
    /\ Lt32(Sub32(U32(j), offset), length)
NoSrc == [null |-> TRUE, bytes |-> <<>>]
\* the caller's array src read at index i (from 0); a read past its end is
\* undefined and yields u
SrcByte(src, i, u) == IF i < Len(src) THEN src[i + 1] ELSE u
\* memcpy(buffer + offset, src, length): the bytes of the allocation it
\* reaches; stores outside the allocation are not represented
memcpy_to(m, buffer, offset, src, length, u) ==
    IF buffer = NULL THEN m
    ELSE [m EXCEPT ![buffer.buf] =
            [i \in 1..AllocSize(buffer.buf) |->
                LET j == i - 1 - buffer.off
                IN  IF j >= 0 /\ InRange(offset, length, j)
                    THEN SrcByte(src, j - offset.lo, u)
                    ELSE m[buffer.buf][i]]]
\* memset(buffer + offset, 0, length)
memset_zero(m, buffer, offset, length) ==
    IF buffer = NULL THEN m
    ELSE [m EXCEPT ![buffer.buf] =
            [i \in 1..AllocSize(buffer.buf) |->
                LET j == i - 1 - buffer.off
                IN  IF j >= 0 /\ InRange(offset, length, j) THEN 0
                    ELSE m[buffer.buf][i]]]
\* memcpy(destination, buffer + offset, length): the bytes copied out (the
\* first W16 of them when the length is larger)
memcpy_from(m, buffer, offset, length, u) ==
    [i \in 1..(IF IsSmall(length) THEN length.lo ELSE W16) |->
        Load(m, buffer, Add32(offset, U32(i - 1)), u)]

\* Packet::set_field(name | field_id, uint32_t value)
set_field(P, m, sel, value) ==
    LET fs == Find(P, sel)
    IN  IF fs # <<>>
        THEN Gives(CallSet(fs[1].set_val, m, P.msg_buffer, fs[1].offset, value), <<>>)
        ELSE Fails(m, "UnknownField")

\* Packet::get_field(name | field_id)
get_field(P, m, sel, u) ==
    LET fs == Find(P, sel)
    IN  IF fs # <<>>
        THEN IF fs[1].pointer THEN Fails(m, "TypeMismatch")
             ELSE LET val == CallGet(fs[1].get_val, m, P.msg_buffer, fs[1].offset, u)
                  IN  Gives(m, <<val.hi, val.lo>>)
        ELSE NotFound(m, sel, u)

\* Packet::set_field(name | field_id, const T* src); src is the caller's
\* array [null |-> FALSE, bytes |-> ...] or the null pointer NoSrc
set_field_ptr(P, m, sel, src, u) ==
    LET fs == Find(P, sel)
    IN  IF fs # <<>>
        THEN IF ~fs[1].pointer THEN Fails(m, "TypeMismatch")
             ELSE LET f == fs[1]
                      m1 == IF ~src.null
                            THEN memcpy_to(m, P.msg_buffer.buffer, f.offset, src.bytes, f.length, u)
                            ELSE memset_zero(m, P.msg_buffer.buffer, f.offset, f.length)
                  IN  Gives(m1, <<f.length.hi, f.length.lo>>)
        ELSE NotFound(m, sel, u)

\* Packet::get_field(name | field_id, void* destination): with a destination
\* (destination = TRUE) the bytes copied to it, with NULL the address of
\* the field's first byte
get_field_ptr(P, m, sel, destination, u) ==
    LET fs == Find(P, sel)
    IN  IF fs # <<>>
        THEN IF ~fs[1].pointer THEN Fails(m, "TypeMismatch")
             ELSE LET f == fs[1]
                  IN  IF destination
                      THEN Gives(m, memcpy_from(m, P.msg_buffer.buffer, f.offset, f.length, u))
                      ELSE Gives(m, <<f.offset.hi, f.offset.lo>>)
        ELSE NotFound(m, sel, u)

\* ------------------------------------------------------------------------
\* The declaration machine (Spec): one Packet p under declaration, and a
\* source Packet q for copy_fields
\* ------------------------------------------------------------------------
VARIABLES
    packets,    \* the Packet objects: "p", and the source "q"
    mem,        \* the bytes of the caller's buffers
    last        \* the last call made and its outcome

vars == <<packets, mem, last>>

Bytes == 0..(B8 - 1)
ZeroMem == [b \in Buffers |-> [i \in 1..AllocSize(b) |-> 0]]

\* the outcome of the last call: what it returned or threw
Call(op, r) == [op |-> op, ret |-> r.ret, err |-> r.err]
NoCall == [op |-> "construct", ret |-> <<>>, err |-> "none"]

\* inputs of the declaration machine
DeclTypes == {"uint8_t", "uint32_t", "char*"}
\* 2^32 - HugeBack: a length whose 32-bit sum with the cursor wraps
HugeBack == 2
LengthInputs == {U32(n) : n \in 0..MaxLen} \cup {U32Neg(HugeBack)}
CapacityInputs == {U32(n) : n \in {0, 1, SizeB, SizeA}}

\* a Packet as a sequence of add_field calls leaves it
RECURSIVE Declared(_, _)
Declared(P, decls) ==
    IF decls = <<>> THEN P
    ELSE Declared(add_field(P, decls[1][1], decls[1][2], decls[1][3]).packet, Tail(decls))
SourceDecls ==
    { << <<"uint32_t", "a", Zero>> >>,
      << <<"uint8_t", "b", Zero>>, <<"char*", "a", U32(2)>> >> }
SourcePackets ==
    { Declared(Packet(Ptr("A", 0), U32(SizeA), 0), d) : d \in SourceDecls }

Init ==
    /\ \E P \in {Packet(Ptr("A", 0), U32(SizeA), be) : be \in {0, 1}} \cup {DefaultPacket},
          Q \in SourcePackets :
            packets = [i \in {"p", "q"} |-> IF i = "p" THEN P ELSE Q]
    /\ mem = ZeroMem
    /\ last = NoCall

\* the process has not been terminated
Running == last.err # "Crashed"

\* a call on p with outcome r, within the bound on declarations
Step(r, call) ==
    /\ Running
    /\ Len(r.packet.fields_by_id) <= MaxFields
    /\ packets' = [packets EXCEPT !["p"] = r.packet]
    /\ last' = call
    /\ UNCHANGED mem

AddField(T, name, len) ==
    LET r == add_field(packets["p"], T, name, len)
    IN  Step(r, Call("add_field", r))

CopyFields ==
    LET r == copy_fields(packets["p"], packets["q"])
    IN  Step(r, Call("copy_fields", r))

RenameField(old_name, new_name) ==
    LET r == rename_field(packets["p"], old_name, new_name)
    IN  Step(r, Call("rename_field", r))

AdjustMaxLengthTo(to_length) ==
    LET r == adjust_max_length_to(packets["p"], to_length)
    IN  Step(r, Call("adjust_max_length(to)", r))

AdjustMaxLength ==
    LET r == adjust_max_length(packets["p"])
    IN  Step(r, Call("adjust_max_length()", r))

SetupBuffer(new_buffer, buffer_size, big_endian) ==
    LET r == setup_buffer(packets["p"], new_buffer, buffer_size, big_endian)
    IN  Step(r, Call("setup_buffer", r))

\* the buffers a caller rebinds to, each with its true size, and the bad calls
RebindInputs ==
    { <<Ptr(b, 0), U32(AllocSize(b))>> : b \in Buffers }
        \cup { <<NULL, U32(SizeB)>>, <<Ptr("B", 0), Zero>> }

Next ==
    \/ \E T \in DeclTypes, name \in Names, len \in LengthInputs : AddField(T, name, len)
    \/ CopyFields
    \/ \E old_name \in Names, new_name \in Names : RenameField(old_name, new_name)
    \/ \E to_length \in CapacityInputs : AdjustMaxLengthTo(to_length)
    \/ AdjustMaxLength
    \/ \E b \in RebindInputs, be \in {0, 1} : SetupBuffer(b[1], b[2], be)

Spec == Init /\ [][Next]_vars

\* the declaration calls alone: add_field, copy_fields, rename_field
NextDecl ==
    \/ \E T \in DeclTypes, name \in Names, len \in LengthInputs : AddField(T, name, len)
    \/ CopyFields
    \/ \E old_name \in Names, new_name \in Names : RenameField(old_name, new_name)

SpecDecl == Init /\ [][NextDecl]_vars

\* ------------------------------------------------------------------------
\* The access machine (SpecAccess): p is declared with add_field, rebound
\* with setup_buffer, and read and written through the four accessors
\* ------------------------------------------------------------------------
AccessTypes == {"uint8_t", "int16_t", "uint32_t", "char*"}
AccessLengths == {U32(n) : n \in 0..MaxLen}
\* the rebinds of the access machine: to the smaller buffer, and a rejected
\* one; big_endian is left to its default, 0
AccessRebinds == { <<Ptr("B", 0), U32(SizeB)>>, <<NULL, U32(SizeB)>> }
Selectors == {ByName(n) : n \in Names} \cup {ById(i) : i \in 0..MaxFields}
\* 0x01020304
ValueInputs == {[hi |-> 258, lo |-> 772]}
SrcInputs == {NoSrc, [null |-> FALSE, bytes |-> <<170, 187, 204>>]}
\* the bytes an undefined load is seen to yield
UndefBytes == {0, B8 - 1}

InitAccess ==
    /\ \E b \in Buffers, be \in {0, 1} :
          packets = [i \in {"p", "q"} |->
                        IF i = "p" THEN Packet(Ptr(b, 0), U32(AllocSize(b)), be)
                        ELSE DefaultPacket]
    /\ mem = ZeroMem
    /\ last = NoCall

\* an accessor call on p with outcome r
Access(r, call) ==
    /\ Running
    /\ mem' = r.mem
    /\ last' = call
    /\ UNCHANGED packets

SetValue(sel, value) ==
    LET r == set_field(packets["p"], mem, sel, value)
    IN  Access(r, Call("set_field(value)", r))

GetValue(sel, u) ==
    LET r == get_field(packets["p"], mem, sel, u)
    IN  Access(r, Call("get_field()", r))

SetBytes(sel, src, u) ==
    LET r == set_field_ptr(packets["p"], mem, sel, src, u)
    IN  Access(r, Call("set_field(src)", r))

GetBytes(sel, destination, u) ==
    LET r == get_field_ptr(packets["p"], mem, sel, destination, u)
    IN  Access(r, Call("get_field(destination)", r))

NextAccess ==
    \/ \E T \in AccessTypes, name \in Names, len \in AccessLengths : AddField(T, name, len)
    \/ \E b \in AccessRebinds : SetupBuffer(b[1], b[2], 0)
    \/ \E sel \in Selectors, value \in ValueInputs : SetValue(sel, value)
    \/ \E sel \in Selectors, u \in UndefBytes : GetValue(sel, u)
    \/ \E sel \in Selectors, src \in SrcInputs, u \in UndefBytes : SetBytes(sel, src, u)
    \/ \E sel \in Selectors, destination \in BOOLEAN, u \in UndefBytes :
          GetBytes(sel, destination, u)

SpecAccess == InitAccess /\ [][NextAccess]_vars

\* ------------------------------------------------------------------------
\* The codec machine (SpecCodec): the 16- and 32-bit accessors of p's
\* PacketBuffer applied directly, at the first offsets of buffer A
\* ------------------------------------------------------------------------
\* largest offset the codec machine reads and writes at
MaxOffset == 1
CodecOffsets == {U32(n) : n \in 0..MaxOffset}
CodecSetters == {"set_uint16", "set_uint32"}
CodecGetters == {"get_uint16", "get_uint32"}

InitCodec ==
    /\ \E be \in {0, 1} :
          packets = [i \in {"p", "q"} |->
                        IF i = "p" THEN Packet(Ptr("A", 0), U32(SizeA), be)
                        ELSE DefaultPacket]
    /\ mem = ZeroMem
    /\ last = NoCall

BufferSet(fn, offset, value) ==
    /\ mem' = CallSet(fn, mem, packets["p"].msg_buffer, offset, value)
    /\ last' = [op |-> fn, ret |-> <<>>, err |-> "none"]
    /\ UNCHANGED packets

BufferGet(fn, offset) ==
    LET val == CallGet(fn, mem, packets["p"].msg_buffer, offset, 0)
    IN  /\ last' = [op |-> fn, ret |-> <<val.hi, val.lo>>, err |-> "none"]
        /\ UNCHANGED <<packets, mem>>

NextCodec ==
    \/ \E fn \in CodecSetters, offset \in CodecOffsets, value \in ValueInputs :
          BufferSet(fn, offset, value)
    \/ \E fn \in CodecGetters, offset \in CodecOffsets : BufferGet(fn, offset)

SpecCodec == InitCodec /\ [][NextCodec]_vars

\* ------------------------------------------------------------------------
\* The sub-packet machine (SpecSub): p is declared, renamed and rebound;
\* sub_packet registers sub-packets of p, and the caller declares, resizes,
\* reads and writes through the references it was returned
\* ------------------------------------------------------------------------
\* length of the pointer-type fields declared on the parent
SubLen == 2
\* the declarations made on the parent: <<T, length>>
SubDecls == { <<"uint8_t", Zero>>, <<"char*", U32(SubLen)>> }
\* the declarations made inside a sub-packet
InnerTypes == {"uint16_t"}
InnerLengths == {Zero, U32Neg(HugeBack)}
FieldNames == Names \ {""}
\* the one reference the caller declares, resizes and accesses through
Refs == {"a"}
\* the renames made on the parent: <<old_name, new_name>>
SubRenames == { <<"a", "b">>, <<"b", "b">>, <<"", "a">> }

InitSub ==
    /\ \E be \in {0, 1} :
          packets = [i \in {"p", "q"} |->
                        IF i = "p" THEN Packet(Ptr("A", 0), U32(SizeA), be)
                        ELSE DefaultPacket]
    /\ mem = ZeroMem
    /\ last = NoCall

SubPacket(name) ==
    LET r == sub_packet(packets["p"], name)
    IN  Step(r, Call("sub_packet", r))

\* the sub-packet of p the reference returned by sub_packet(n) refers to
SubOf(n) == packets["p"].sub_packets[n]
HasRef(n) == n \in DOMAIN packets["p"].sub_packets

\* a call through the reference to p's sub-packet n, with outcome r
SubStep(n, r, call) ==
    /\ Running
    /\ Len(r.packet.fields_by_id) <= MaxFields
    /\ packets' = [packets EXCEPT !["p"].sub_packets[n] = r.packet]
    /\ last' = call
    /\ UNCHANGED mem

SubAddField(n, T, name, len) ==
    /\ HasRef(n)
    /\ LET r == add_field(SubOf(n), T, name, len)
       IN  SubStep(n, r, Call("sub.add_field", r))

SubAdjustMaxLengthTo(n, to_length) ==
    /\ HasRef(n)
    /\ LET r == adjust_max_length_to(SubOf(n), to_length)
       IN  SubStep(n, r, Call("sub.adjust_max_length(to)", r))

SubSetValue(n, sel, value) ==
    /\ HasRef(n)
    /\ LET r == set_field(SubOf(n), mem, sel, value)
       IN  Access(r, Call("sub.set_field(value)", r))

SubGetValue(n, sel, u) ==
    /\ HasRef(n)
    /\ LET r == get_field(SubOf(n), mem, sel, u)
       IN  Access(r, Call("sub.get_field()", r))

NextSub ==
    \/ \E d \in SubDecls, name \in FieldNames : AddField(d[1], name, d[2])
    \/ \E name \in Names : SubPacket(name)
    \/ \E n \in Refs, T \in InnerTypes, name \in FieldNames, len \in InnerLengths :
          SubAddField(n, T, name, len)
    \/ \E n \in Refs : SubAdjustMaxLengthTo(n, U32(1))
    \/ \E rn \in SubRenames : RenameField(rn[1], rn[2])
    \/ \E b \in AccessRebinds : SetupBuffer(b[1], b[2], 0)

SpecSub == InitSub /\ [][NextSub]_vars

\* ------------------------------------------------------------------------
\* The aliasing machine (SpecAlias): p and the sub-packet the caller holds a
\* reference to are declared, p is rebound, and the buffer is read and
\* written through p's accessors and through the sub-packet's
\* ------------------------------------------------------------------------
NextAlias ==
    \/ \E d \in SubDecls, name \in FieldNames : AddField(d[1], name, d[2])
    \/ \E name \in Names : SubPacket(name)
    \/ \E n \in Refs, T \in InnerTypes, name \in FieldNames : SubAddField(n, T, name, Zero)
    \/ \E b \in AccessRebinds : SetupBuffer(b[1], b[2], 0)
    \/ \E sel \in Selectors, value \in ValueInputs : SetValue(sel, value)
    \/ \E sel \in Selectors, u \in UndefBytes : GetValue(sel, u)
    \/ \E sel \in Selectors, src \in SrcInputs, u \in UndefBytes : SetBytes(sel, src, u)
    \/ \E sel \in Selectors, destination \in BOOLEAN, u \in UndefBytes :
          GetBytes(sel, destination, u)
    \/ \E n \in Refs, sel \in Selectors, value \in ValueInputs : SubSetValue(n, sel, value)
    \/ \E n \in Refs, sel \in Selectors, u \in UndefBytes : SubGetValue(n, sel, u)

SpecAlias == InitSub /\ [][NextAlias]_vars

\* ------------------------------------------------------------------------
\* The copy machine (SpecCopy): q is copy-constructed from p, fields are
\* declared, renamed and appended on either of them, and the buffer is read
\* and written through the accessors of either
\* ------------------------------------------------------------------------
\* a copy that is bound to a buffer of its own (B) rather than to the
\* buffer of the Packet it is copied from
Packet_copy_own_buffer(other) ==
    [other EXCEPT !.msg_buffer.buffer = Ptr("B", 0)]
\* the implicitly defined copy constructor Packet(const Packet&): each data
\* member is copied; the copy of msg_buffer holds the same buffer address
Packet_copy(other) ==
    [msg_buffer |-> other.msg_buffer,
     cur_length |-> other.cur_length,
     packet_name |-> other.packet_name,
     fields |-> other.fields,
     fields_by_id |-> other.fields_by_id,
     sub_packets |-> other.sub_packets]

\* the declarations, renames and selectors of the copy machine
CopyDecls == { <<"uint16_t", Zero>>, <<"char*", U32(MaxLen)>> }
CopyRenames == { <<"a", "b">>, <<"b", "b">> }
CopySelectors == {ByName("a"), ById(1)}

\* a call on the copy q with outcome r, within the bound on declarations
CopyStep(r, call) ==
    /\ Running
    /\ Len(r.packet.fields_by_id) <= MaxFields
    /\ packets' = [packets EXCEPT !["q"] = r.packet]
    /\ last' = call
    /\ UNCHANGED mem

\* Packet q(p), or q = Packet(p) anew
CopyConstruct ==
    LET r == Returns(Packet_copy(packets["p"]), <<>>)
    IN  CopyStep(r, Call("Packet(const Packet&)", r))

CopyAddField(T, name, len) ==
    LET r == add_field(packets["q"], T, name, len)
    IN  CopyStep(r, Call("copy.add_field", r))

CopyRenameField(old_name, new_name) ==
    LET r == rename_field(packets["q"], old_name, new_name)
    IN  CopyStep(r, Call("copy.rename_field", r))

\* q.copy_fields(p)
CopyCopyFields ==
    LET r == copy_fields(packets["q"], packets["p"])
    IN  CopyStep(r, Call("copy.copy_fields", r))

CopySetValue(sel, value) ==
    LET r == set_field(packets["q"], mem, sel, value)
    IN  Access(r, Call("copy.set_field(value)", r))

CopyGetValue(sel, u) ==
    LET r == get_field(packets["q"], mem, sel, u)
    IN  Access(r, Call("copy.get_field()", r))

NextCopy ==
    \/ \E d \in CopyDecls, name \in FieldNames : AddField(d[1], name, d[2])
    \/ CopyConstruct
    \/ \E d \in CopyDecls, name \in FieldNames : CopyAddField(d[1], name, d[2])
    \/ \E rn \in CopyRenames : RenameField(rn[1], rn[2])
    \/ \E rn \in CopyRenames : CopyRenameField(rn[1], rn[2])
    \/ CopyFields
    \/ CopyCopyFields
    \/ \E sel \in CopySelectors, value \in ValueInputs : SetValue(sel, value)
    \/ \E sel \in CopySelectors, value \in ValueInputs : CopySetValue(sel, value)
    \/ \E sel \in CopySelectors, u \in UndefBytes : GetValue(sel, u)
    \/ \E sel \in CopySelectors, u \in UndefBytes : CopyGetValue(sel, u)

SpecCopy == InitSub /\ [][NextCopy]_vars

\* ------------------------------------------------------------------------
\* Claims
\* ------------------------------------------------------------------------
p == packets["p"]
\* the length add_field<T>(name, len) gives the field
EffLen(T, len) == IF ~is_pointer_type(T) /\ len = Zero THEN sizeof(T) ELSE len
\* [a.offset, a.offset + a.length) and [b.offset, b.offset + b.length), as
\* ranges of integers, share no byte
Disjoint(a, b) ==
    \/ ~SumExceeds(a.offset, a.length, b.offset)
    \/ ~SumExceeds(b.offset, b.length, a.offset)
\* [f.offset, f.offset + f.length) lies within [0, capacity)
WithinCapacity(f, P) == ~SumExceeds(f.offset, f.length, P.msg_buffer.max_len)

\* C1: after any sequence of add_field, copy_fields and rename_field calls,
\* every declared field's byte range lies within [0, capacity) and the ranges
\* of two distinct fields are disjoint.
C1_RangesWithinAndDisjoint ==
    /\ \A i \in 1..Len(p.fields_by_id) : WithinCapacity(p.fields_by_id[i], p)
    /\ \A i, j \in 1..Len(p.fields_by_id) :
          i # j => Disjoint(p.fields_by_id[i], p.fields_by_id[j])
    /\ \A n \in DOMAIN p.fields : WithinCapacity(p.fields[n], p)
    /\ \A n, m \in DOMAIN p.fields : n # m => Disjoint(p.fields[n], p.fields[m])

\* C2: in every reachable state the cursor (length()) is at most the capacity
\* (max_length()), so bytes_left() lies in [0, capacity] and never wraps.
C2_CursorWithinCapacity ==
    /\ Le32(Packet_length(p), Packet_max_length(p))
    /\ Le32(bytes_left(p), Packet_max_length(p))

\* C3: add_field fails with the capacity error whenever the (non-wrapping)
\* sum cursor + length exceeds the capacity, and the failed call leaves the
\* cursor, the name map and the id sequence unchanged.  Stated for the calls
\* whose other arguments are accepted (buffer bound, length given, name not
\* empty and not yet declared).
C3_CapacityExceededFails ==
    [][\A T \in DeclTypes, name \in Names, len \in LengthInputs :
          ( /\ AddField(T, name, len)
            /\ p.msg_buffer.buffer # NULL
            /\ ~(is_pointer_type(T) /\ len = Zero)
            /\ name # ""
            /\ name \notin DOMAIN p.fields
            /\ SumExceeds(p.cur_length, EffLen(T, len), p.msg_buffer.max_len) )
          => /\ last'.err = "CapacityExceeded"
             /\ packets' = packets]_vars

PassesEarlierChecks(P, T, name, len) ==
    /\ P.msg_buffer.buffer # NULL
    /\ ~(is_pointer_type(T) /\ len = Zero)
    /\ name # ""
    /\ Le32(Add32(P.cur_length, EffLen(T, len)), P.msg_buffer.max_len)

C5_DenseIds ==
    /\ \A P \in {packets["p"], packets["q"]} :
          \A i \in 1..Len(P.fields_by_id) : P.fields_by_id[i].field_id = i - 1
    /\ (last.op = "add_field" /\ last.err = "none")
          => last.ret = <<Len(p.fields_by_id) - 1>>
C5_Witness ==
    /\ last.op = "copy_fields"
    /\ last.err = "none"
    /\ Len(p.fields_by_id) > Len(packets["q"].fields_by_id)

\* C6: a successful add_field returns the number of fields declared before
\* the call, creates the descriptor at the cursor before the call, advances
\* the cursor by exactly the field's length and leaves every byte of the
\* buffer unchanged.
C6_AddFieldEffect ==
    [][\A T \in DeclTypes, name \in Names, len \in LengthInputs :
          (AddField(T, name, len) /\ last'.err = "none")
          => LET n == Len(p.fields_by_id)
                 P1 == packets'["p"]
             IN  /\ last'.ret = <<n>>
                 /\ Len(P1.fields_by_id) = n + 1
                 /\ P1.fields_by_id[n + 1].offset = p.cur_length
                 /\ P1.fields_by_id[n + 1].length = EffLen(T, len)
                 /\ P1.fields[name] = P1.fields_by_id[n + 1]
                 /\ P1.cur_length = Add32(p.cur_length, EffLen(T, len))
                 /\ ~SumExceeds(p.cur_length, EffLen(T, len), P1.cur_length)
                 /\ mem' = mem ]_vars

\* the values the accessor claims are checked for: 0x01020304, 0xFFFFFFFF,
\* 0x80000080 and 0
CheckValues ==
    { [hi |-> 258, lo |-> 772], [hi |-> W16 - 1, lo |-> W16 - 1],
      [hi |-> W16 \div 2, lo |-> B8 \div 2], Zero }
\* v mod 2^(8 * sizeof(T)), as get_field returns it
ModWidth(v, T) ==
    CASE sizeof(T) = U32(1) -> <<0, v.lo % B8>>
      [] sizeof(T) = U32(2) -> <<0, v.lo>>
      [] OTHER -> <<v.hi, v.lo>>

\* C7: in every reachable state, for every declared numeric field (selected
\* by name or by id), either endianness and every value v, set_field(f, v)
\* succeeds and the get_field(f) that follows returns v mod 2^(bit width of
\* the field's type), whatever an undefined load yields.
C7_NumericRoundTrip ==
    \A sel \in Selectors, v \in CheckValues, u \in UndefBytes :
        LET fs == Find(p, sel)
        IN  (fs # <<>> /\ ~fs[1].pointer)
            => LET s == set_field(p, mem, sel, v)
                   g == get_field(p, s.mem, sel, u)
               IN  /\ s.err = "none"
                   /\ g.err = "none"
                   /\ g.ret = ModWidth(v, fs[1].type)

\* the bytes of the low `width` bytes of value, in the order of a direct
\* codec: most significant byte first when big_endian is set, least
\* significant byte first otherwise
DirectBytes(value, width, big_endian) ==
    LET le == <<value.lo % B8, value.lo \div B8, value.hi % B8, value.hi \div B8>>
    IN  [i \in 1..width |-> IF big_endian # 0 THEN le[width + 1 - i] ELSE le[i]]
\* the memory with bytes stored at buffer[offset], buffer[offset + 1], ...
DirectStore(m, buffer, offset, bytes) ==
    [m EXCEPT ![buffer.buf] =
        [i \in 1..AllocSize(buffer.buf) |->
            LET k == i - buffer.off - offset.lo
            IN  IF k \in 1..Len(bytes) THEN bytes[k] ELSE m[buffer.buf][i]]]
\* the value whose direct encoding is the `width` bytes at buffer[offset]
DirectValue(m, buffer, offset, width, big_endian) ==
    LET byte(i) == m[buffer.buf][buffer.off + offset.lo + i]
        le == [i \in 1..4 |->
                 IF i > width THEN 0
                 ELSE IF big_endian # 0 THEN byte(width + 1 - i) ELSE byte(i)]
    IN  [hi |-> le[4] * B8 + le[3], lo |-> le[2] * B8 + le[1]]

\* C8: the telescoped set_uint16 / set_uint32 leave exactly the memory a
\* direct codec leaves (most significant byte at the lowest offset with
\* big_endian set, least significant byte otherwise), get_uint16 /
\* get_uint32 return the value a direct codec decodes, and 0x01020304
\* written to a u32 at offset 1 yields 04 03 02 01 (little-endian) or
\* 01 02 03 04 (big-endian) at offsets 1..4.
C8_TelescopedIsDirectCodec ==
    LET B == p.msg_buffer
    IN  /\ \A offset \in CodecOffsets, value \in CheckValues :
              /\ set_uint32(mem, B, offset, value)
                    = DirectStore(mem, B.buffer, offset, DirectBytes(value, 4, B.use_big_endian))
              /\ set_uint16(mem, B, offset, value)
                    = DirectStore(mem, B.buffer, offset, DirectBytes(value, 2, B.use_big_endian))
        /\ \A offset \in CodecOffsets :
              /\ get_uint32(mem, B, offset, 0)
                    = DirectValue(mem, B.buffer, offset, 4, B.use_big_endian)
              /\ get_uint16(mem, B, offset, 0)
                    = DirectValue(mem, B.buffer, offset, 2, B.use_big_endian)
        /\ SubSeq(set_uint32(mem, B, U32(1), [hi |-> 258, lo |-> 772])["A"], 2, 5)
              = IF B.use_big_endian # 0 THEN <<1, 2, 3, 4>> ELSE <<4, 3, 2, 1>>
C8_Witness ==
    /\ last.op = "set_uint32"
    /\ p.msg_buffer.use_big_endian # 0
    /\ SubSeq(mem["A"], 2, 5) = <<1, 2, 3, 4>>

\* C9: in every reachable state, for every declared pointer-type field of
\* length L (selected by name or by id) and every source array of at least
\* L bytes, set_field(f, src) returns L and the get_field(f, dst) that
\* follows copies out exactly L bytes: the first L bytes of src, or L zero
\* bytes when src is NULL, whatever an undefined load yields.
C9_BlobRoundTrip ==
    \A sel \in Selectors, src \in SrcInputs, u \in UndefBytes :
        LET fs == Find(p, sel)
        IN  ( /\ fs # <<>>
              /\ fs[1].pointer
              /\ IsSmall(fs[1].length)
              /\ src.null \/ fs[1].length.lo <= Len(src.bytes) )
            => LET L == fs[1].length.lo
                   s == set_field_ptr(p, mem, sel, src, u)
                   g == get_field_ptr(p, s.mem, sel, TRUE, u)
               IN  /\ s.err = "none"
                   /\ s.ret = <<0, L>>
                   /\ g.err = "none"
                   /\ g.ret = IF src.null THEN [i \in 1..L |-> 0]
                               ELSE SubSeq(src.bytes, 1, L)

\* what the accessor of g's kind reads from field g
ReadBack(P, m, g, u) ==
    IF g.pointer THEN get_field_ptr(P, m, ById(g.field_id), TRUE, u).ret
    ELSE get_field(P, m, ById(g.field_id), u).ret
\* the bytes of the view that lie outside [f.offset, f.offset + f.length)
\* are the same in m1 and m2
SameOutside(P, f, m1, m2) ==
    LET buffer == P.msg_buffer.buffer
    IN  \A i \in 1..AllocSize(buffer.buf) :
            (i - 1 - buffer.off >= 0 /\ ~InRange(f.offset, f.length, i - 1 - buffer.off))
            => m1[buffer.buf][i] = m2[buffer.buf][i]

\* C10: in every reachable state, a successful set_field(f, value) or
\* set_field(f, src) on a declared field f changes no byte outside
\* [f.offset, f.offset + f.length), and every other declared field of the
\* Packet reads back the same before and after the call.
C10_SetChangesOwnRangeOnly ==
    \A sel \in Selectors, u \in UndefBytes :
        LET fs == Find(p, sel)
        IN  fs # <<>>
            => \A s \in {set_field(p, mem, sel, v) : v \in CheckValues}
                        \cup {set_field_ptr(p, mem, sel, src, u) : src \in SrcInputs} :
                  s.err = "none"
                  => /\ SameOutside(p, fs[1], s.mem, mem)
                     /\ \A k \in 1..Len(p.fields_by_id) :
                           LET g == p.fields_by_id[k]
                           IN  g.field_id # fs[1].field_id
                               => ReadBack(p, s.mem, g, u) = ReadBack(p, mem, g, u)

\* the first L bytes a set_field(src) stores: of src, or zeros for NULL
StoredBytes(src, L) == IF src.null THEN [i \in 1..L |-> 0] ELSE SubSeq(src.bytes, 1, L)
\* the value a direct codec decodes from a sequence of 1, 2 or 4 bytes
ValueOfBytes(bytes, big_endian) ==
    LET n == Len(bytes)
        le == [i \in 1..4 |->
                 IF i > n THEN 0
                 ELSE IF big_endian # 0 THEN bytes[n + 1 - i] ELSE bytes[i]]
    IN  <<le[4] * B8 + le[3], le[2] * B8 + le[1]>>
\* the bytes the sub-packet sub sees in its first L bytes
SubView(sub, m, L, u) == memcpy_from(m, sub.msg_buffer.buffer, Zero, U32(L), u)
\* field g of a sub-packet lies within the first L bytes and is as wide as
\* its accessor
InsideBlob(g, L) ==
    /\ IsSmall(g.offset) /\ IsSmall(g.length)
    /\ g.length.lo = AccessWidth(g.get_val)
    /\ g.offset.lo + g.length.lo <= L

\* C11: for every sub-packet obtained earlier for a declared pointer-type
\* field n of p (length L), (a) bytes written to n through p are the bytes
\* the sub-packet sees, and each numeric field of the sub-packet reads the
\* value of the written bytes at its offset; (b) a value written through a
\* field of the sub-packet is what p's get_field(n, dst) copies out at that
\* offset, and p's bytes of n are the bytes the sub-packet sees.
C11_ParentAndSubPacketAlias ==
    \A n \in DOMAIN p.sub_packets, u \in UndefBytes :
        (n \in DOMAIN p.fields /\ p.fields[n].pointer /\ IsSmall(p.fields[n].length))
        => LET sub == p.sub_packets[n]
               L == p.fields[n].length.lo
           IN  /\ \A src \in SrcInputs :
                     LET m1 == set_field_ptr(p, mem, ByName(n), src, u).mem
                     IN  /\ SubView(sub, m1, L, u) = StoredBytes(src, L)
                         /\ \A k \in 1..Len(sub.fields_by_id) :
                               LET g == sub.fields_by_id[k]
                               IN  (~g.pointer /\ InsideBlob(g, L))
                                   => get_field(sub, m1, ById(k - 1), u).ret
                                        = ValueOfBytes(SubSeq(StoredBytes(src, L), g.offset.lo + 1,
                                                              g.offset.lo + g.length.lo),
                                                       sub.msg_buffer.use_big_endian)
               /\ \A k \in 1..Len(sub.fields_by_id), v \in CheckValues :
                     LET g == sub.fields_by_id[k]
                         m2 == set_field(sub, mem, ById(k - 1), v).mem
                         out == get_field_ptr(p, m2, ByName(n), TRUE, u).ret
                     IN  (~g.pointer /\ InsideBlob(g, L))
                         => /\ out = SubView(sub, m2, L, u)
                            /\ SubSeq(out, g.offset.lo + 1, g.offset.lo + g.length.lo)
                                 = DirectBytes(v, g.length.lo, sub.msg_buffer.use_big_endian)

\* n is a declared pointer-type field of P that has a registered sub-packet:
\* sub_packet(n) returns that sub-packet
Returned(P, n) ==
    /\ n \in DOMAIN P.sub_packets
    /\ n \in DOMAIN P.fields
    /\ P.fields[n].pointer

\* C12: in every reachable state (also after setup_buffer and rename_field
\* on the parent and after a name is declared again), the sub-packet
\* sub_packet(n) returns views the bytes of the parent's current buffer from
\* field n's offset, and at most field n's length of them.
C12_SubViewInParentField ==
    \A n \in DOMAIN p.sub_packets :
        Returned(p, n)
        => /\ p.sub_packets[n].msg_buffer.buffer
                = get_uint8_ptr(p.msg_buffer, p.fields[n].offset)
           /\ Le32(p.sub_packets[n].msg_buffer.max_len, p.fields[n].length)

\* the lengths of the fields of P, as integers, add up to at most L
RECURSIVE LengthsWithin(_, _)
LengthsWithin(fs, L) ==
    IF fs = <<>> THEN L >= 0
    ELSE /\ IsSmall(fs[1].length)
         /\ fs[1].length.lo <= L
         /\ LengthsWithin(Tail(fs), L - fs[1].length.lo)

\* C13: for every sub-packet sub_packet(n) returns, its capacity and the
\* sum of the lengths of the fields declared in it are at most the length
\* of the parent's field n, also after adjust_max_length; and once the
\* declared lengths fill the field, every further declaration fails.
C13_SubPacketWithinField ==
    \A n \in DOMAIN p.sub_packets :
        (Returned(p, n) /\ IsSmall(p.fields[n].length))
        => LET sub == p.sub_packets[n]
               L == p.fields[n].length.lo
           IN  /\ Le32(sub.msg_buffer.max_len, p.fields[n].length)
               /\ LengthsWithin(sub.fields_by_id, L)
               /\ sub.cur_length = p.fields[n].length
                    => \A T \in InnerTypes, name \in FieldNames, len \in InnerLengths :
                          add_field(sub, T, name, len).err # "none"

\* C14: sub_packet(n) for a declared pointer-type field n without a
\* sub-packet registers exactly one new, empty sub-packet over the field and
\* changes nothing else; once n has a sub-packet every sub_packet(n) returns
\* that registered sub-packet and changes nothing; and a registered
\* sub-packet keeps every field declared in it (same name, id, offset and
\* length), so each later call returns them.
C14_FirstCall ==
    \A n \in Names :
        (n \in DOMAIN p.fields /\ p.fields[n].pointer)
        => LET r == sub_packet(p, n)
           IN  /\ r.err = "none"
               /\ n \in DOMAIN p.sub_packets => r.packet = p
               /\ n \notin DOMAIN p.sub_packets
                    => /\ DOMAIN r.packet.sub_packets = DOMAIN p.sub_packets \cup {n}
                       /\ \A k \in DOMAIN p.sub_packets :
                             r.packet.sub_packets[k] = p.sub_packets[k]
                       /\ r.packet.sub_packets[n].fields_by_id = <<>>
                       /\ r.packet.sub_packets[n].fields = NoFields
                       /\ r.packet.sub_packets[n].msg_buffer.max_len = p.fields[n].length
                       /\ [r.packet EXCEPT !.sub_packets = p.sub_packets] = p
C14_FieldsKept ==
    \A n \in DOMAIN p.sub_packets :
        /\ n \in DOMAIN packets'["p"].sub_packets
        /\ LET old == p.sub_packets[n]
               new == packets'["p"].sub_packets[n]
           IN  /\ Len(new.fields_by_id) >= Len(old.fields_by_id)
               /\ SubSeq(new.fields_by_id, 1, Len(old.fields_by_id)) = old.fields_by_id
               /\ \A name \in DOMAIN old.fields :
                     name \in DOMAIN new.fields /\ new.fields[name] = old.fields[name]
C14_SubPacketIsStable == [](C14_FirstCall) /\ [][C14_FieldsKept]_vars
C14_Witness ==
    /\ last.op = "sub_packet"
    /\ last.err = "none"
    /\ "a" \in DOMAIN p.sub_packets
    /\ Len(p.sub_packets["a"].fields_by_id) >= 1

\* C15: in every reachable state, set_field with an integer value on a
\* declared pointer-type field (selected by name or by id) throws the
\* type-mismatch error and leaves the buffer unchanged, as get_field on that
\* field does.
C15_SetValueOnPointerFieldFails ==
    \A sel \in Selectors, v \in CheckValues, u \in UndefBytes :
        LET fs == Find(p, sel)
        IN  (fs # <<>> /\ fs[1].pointer)
            => /\ get_field(p, mem, sel, u).err = "TypeMismatch"
               /\ get_field(p, mem, sel, u).mem = mem
               /\ set_field(p, mem, sel, v).err = "TypeMismatch"
               /\ set_field(p, mem, sel, v).mem = mem

\* the calls C16 is about, by the name `last` records them under
RejectingOps == {"get_field()", "set_field(src)", "get_field(destination)", "sub_packet"}

\* C16 (the calls, in every reachable state): get_field on an unknown name,
\* an id >= the field count or a pointer-type field, get_field(dst) and
\* set_field(src) on an unknown name, an out-of-range id or a numeric field,
\* and sub_packet on an unknown name or a numeric field throw (the unknown-
\* field or the type-mismatch error) and leave the buffer and the Packet as
\* they are.
C16_RejectedCalls ==
    /\ \A sel \in Selectors, u \in UndefBytes :
          LET fs == Find(p, sel)
              known == fs # <<>>
          IN  /\ (~known \/ fs[1].pointer)
                   => get_field(p, mem, sel, u)
                        = Fails(mem, IF known THEN "TypeMismatch" ELSE "UnknownField")
              /\ (~known \/ ~fs[1].pointer)
                   => /\ \A destination \in BOOLEAN :
                            get_field_ptr(p, mem, sel, destination, u)
                              = Fails(mem, IF known THEN "TypeMismatch" ELSE "UnknownField")
                      /\ \A src \in SrcInputs :
                            set_field_ptr(p, mem, sel, src, u)
                              = Fails(mem, IF known THEN "TypeMismatch" ELSE "UnknownField")
    /\ \A n \in Names :
          /\ n \notin DOMAIN p.fields => sub_packet(p, n) = Throws(p, "UnknownField")
          /\ (n \in DOMAIN p.fields /\ ~p.fields[n].pointer)
               => sub_packet(p, n) = Throws(p, "TypeMismatch")
\* C16 (the steps): a step of one of these calls that throws changes neither
\* the buffer bytes nor the field tables, the cursor or the sub-packet
\* registry.
C16_RejectedStep ==
    (last'.op \in RejectingOps /\ last'.err # "none")
    => (mem' = mem /\ packets' = packets)
C16_RejectedCallsChangeNothing == [](C16_RejectedCalls) /\ [][C16_RejectedStep]_vars

\* the descriptors a Packet holds, in its name map and in its id sequence
Descriptors(P) ==
    {P.fields[n] : n \in DOMAIN P.fields}
      \cup {P.fields_by_id[i] : i \in 1..Len(P.fields_by_id)}

\* C17: every field descriptor of a Packet has the length of its kind: a
\* numeric field the width of its type (1, 2 or 4 bytes), whether it was
\* declared with or without a length argument, and a pointer-type field a
\* length > 0; declaring a pointer-type field with length 0 fails.
C17_LengthInvariant ==
    /\ \A i \in {"p", "q"} : \A f \in Descriptors(packets[i]) :
          IF f.pointer THEN f.length # Zero ELSE f.length = sizeof(f.type)
    /\ \A T \in DeclTypes, name \in Names :
          is_pointer_type(T) => add_field(p, T, name, Zero).err # "none"

q == packets["q"]

\* the cursor after fields 1..k of the sequence fs were appended at cursor c
RECURSIVE CursorAfter(_, _, _)
CursorAfter(c, fs, k) ==
    IF k = 0 THEN c ELSE Add32(CursorAfter(c, fs, k - 1), fs[k].length)

\* the number of fields a call with outcome r appended to P
Appended(P, r) == Len(r.packet.fields_by_id) - Len(P.fields_by_id)

\* C18: copy_fields(source) appends the source's fields in the source's id
\* order (all of them when it returns), each under its name and with its
\* length, numbered from self's field count before the call, at the offset
\* self's cursor has at the moment the field is appended, and leaves the
\* cursor advanced by the appended lengths.
C18_CopyFieldsAppendsAtCursor ==
    LET r == copy_fields(p, q)
        n == Len(p.fields_by_id)
        m == Appended(p, r)
    IN  /\ r.err = "none" => m = Len(q.fields_by_id)
        /\ m \in 0..Len(q.fields_by_id)
        /\ SubSeq(r.packet.fields_by_id, 1, n) = p.fields_by_id
        /\ r.packet.cur_length = CursorAfter(p.cur_length, q.fields_by_id, m)
        /\ \A k \in 1..m :
              LET src == q.fields_by_id[k]
                  g == r.packet.fields_by_id[n + k]
                  name == NameOfId(q, src.field_id)
              IN  /\ g.field_id = n + k - 1
                  /\ g.length = src.length
                  /\ g.type = src.type
                  /\ name \in DOMAIN r.packet.fields
                  /\ r.packet.fields[name] = g
                  /\ g.offset = CursorAfter(p.cur_length, q.fields_by_id, k - 1)

\* the names of fields 1..k of Packet P, in id order
NamesOfFirst(P, k) == {NameOfId(P, P.fields_by_id[j].field_id) : j \in 1..k}

\* C19 (the call, in every reachable state): when copy_fields(source) fails,
\* it fails at a field of the source whose name is taken or whose length
\* exceeds what is left; the source's fields before that one are committed
\* in self (name map, id sequence, cursor), that field and the later ones
\* are not added.
C19_PartialCopy ==
    LET r == copy_fields(p, q)
        n == Len(p.fields_by_id)
        m == Appended(p, r)
        cursor == CursorAfter(p.cur_length, q.fields_by_id, m)
    IN  r.err # "none" =>
          /\ m \in 0..(Len(q.fields_by_id) - 1)
          /\ LET f == q.fields_by_id[m + 1]
                  name == NameOfId(q, f.field_id)
              IN  IF Le32(Add32(cursor, f.length), p.msg_buffer.max_len)
                  THEN /\ r.err = "DuplicateField"
                       /\ name \in DOMAIN p.fields \cup NamesOfFirst(q, m)
                  ELSE r.err = "CapacityExceeded"
          /\ r.packet.cur_length = cursor
          /\ DOMAIN r.packet.fields = DOMAIN p.fields \cup NamesOfFirst(q, m)
          /\ \A name \in DOMAIN p.fields : r.packet.fields[name] = p.fields[name]
          /\ SubSeq(r.packet.fields_by_id, 1, n) = p.fields_by_id
          /\ \A k \in 1..m :
                LET g == [q.fields_by_id[k] EXCEPT !.field_id = n + k - 1]
                IN  /\ r.packet.fields_by_id[n + k] = g
                    /\ r.packet.fields[NameOfId(q, q.fields_by_id[k].field_id)] = g
          /\ r.packet.msg_buffer = p.msg_buffer
          /\ r.packet.sub_packets = p.sub_packets
\* C19 (the steps): a copy_fields step leaves the source Packet as it was and
\* leaves in self what the call committed.
C19_SourceUnchanged ==
    last'.op = "copy_fields"
    => (packets'["q"] = q /\ packets'["p"] = copy_fields(p, q).packet)
C19_CopyFieldsCommitsPerField == [](C19_PartialCopy) /\ [][C19_SourceUnchanged]_vars
\* a copy_fields call has failed on the source's second field, "a", after
\* committing its first, "b", as field 1 of self
C19_Witness ==
    /\ last.op = "copy_fields"
    /\ last.err = "DuplicateField"
    /\ Len(p.fields_by_id) = 2
    /\ Len(q.fields_by_id) = 2
    /\ p.fields_by_id[2] = [q.fields_by_id[1] EXCEPT !.field_id = 1]
    /\ "b" \in DOMAIN p.fields
    /\ p.fields["b"] = p.fields_by_id[2]

\* C20 (the call, in every reachable state): rename_field(old, new) fails
\* and leaves the Packet as it is when old is not declared or new is already
\* declared, new = old included; otherwise it succeeds, the descriptor
\* (field_id, offset, length) is found under new and no longer under old,
\* every other name keeps its descriptor, and the id sequence, the cursor
\* and what an access by id resolves to are unchanged.
C20_RenameFieldCall ==
    \A old_name \in Names, new_name \in Names :
        LET r == rename_field(p, old_name, new_name)
        IN  IF old_name \notin DOMAIN p.fields \/ new_name \in DOMAIN p.fields
            THEN r.err # "none" /\ r.packet = p
            ELSE /\ r.err = "none"
                 /\ new_name \in DOMAIN r.packet.fields
                 /\ old_name \notin DOMAIN r.packet.fields
                 /\ r.packet.fields[new_name] = p.fields[old_name]
                 /\ DOMAIN r.packet.fields
                      = (DOMAIN p.fields \ {old_name}) \cup {new_name}
                 /\ \A n \in DOMAIN p.fields \ {old_name} :
                       r.packet.fields[n] = p.fields[n]
                 /\ r.packet.fields_by_id = p.fields_by_id
                 /\ r.packet.cur_length = p.cur_length
                 /\ r.packet.msg_buffer = p.msg_buffer
                 /\ \A id \in 0..MaxFields :
                       Find(r.packet, ById(id)) = Find(p, ById(id))
\* C20 (the steps): a rename_field step that throws changes nothing, and no
\* rename_field step changes the buffer bytes, the id sequence or the cursor.
C20_RenameFieldStep ==
    last'.op = "rename_field"
    => /\ last'.err # "none" => packets' = packets
       /\ mem' = mem
       /\ packets'["p"].fields_by_id = p.fields_by_id
       /\ packets'["p"].cur_length = p.cur_length
C20_RenameField == [](C20_RenameFieldCall) /\ [][C20_RenameFieldStep]_vars
\* field 0 of two has been renamed to "b": it is found under "b" only
C20_Witness ==
    /\ last.op = "rename_field"
    /\ last.err = "none"
    /\ Len(p.fields_by_id) = 2
    /\ "b" \in DOMAIN p.fields
    /\ "a" \notin DOMAIN p.fields
    /\ p.fields["b"] = p.fields_by_id[1]

\* a bind request with a null buffer or with capacity 0
BadBind(b) == b[1] = NULL \/ b[2] = Zero

\* C21: binding to a null buffer or to capacity 0 is rejected with the
\* invalid-argument error by the bind call itself, by the constructor as by
\* setup_buffer, and a rejected setup_buffer leaves the Packet (buffer,
\* capacity, endianness, field tables) as it was.
C21_BadBindRejected ==
    \A b \in RebindInputs, be \in {0, 1} :
        BadBind(b) =>
          /\ setup_buffer(p, b[1], b[2], be) = Throws(p, "InvalidArgument")
          /\ new_Packet(b[1], b[2], be).err = "InvalidArgument"

\* the smaller of two 32-bit values
Min32(a, b) == IF Lt32(a, b) THEN a ELSE b

\* C22: adjust_max_length(to) never increases the capacity: for every
\* requested value it returns and the capacity after the call is
\* min(old capacity, to); a request with to >= the current capacity is
\* ignored, without an error and with the Packet left as it is.
C22_AdjustToIsMin ==
    \A to_length \in CapacityInputs :
        LET r == adjust_max_length_to(p, to_length)
            old == Packet_max_length(p)
        IN  /\ r.err = "none"
            /\ Packet_max_length(r.packet) = Min32(old, to_length)
            /\ Le32(old, to_length) => r = Returns(p, <<>>)

\* C23: adjust_max_length() returns normally and leaves the capacity equal
\* to the cursor, in every state of the Packet, also when no field has been
\* declared yet.
C23_AdjustToCursor ==
    LET r == adjust_max_length(p)
    IN  /\ r.err = "none"
        /\ Packet_max_length(r.packet) = Packet_length(p)

\* for every field that Packets W and R both hold with the same descriptor:
\* a value (or an array) written to it through W is what the accessor of R
\* reads back from it
WrittenIsReadBack(W, R) ==
    \A sel \in Selectors, u \in UndefBytes :
        LET fs == Find(W, sel)
        IN  (fs # <<>> /\ Find(R, sel) = fs) =>
              IF fs[1].pointer
              THEN \A src \in SrcInputs :
                     (src.null \/ fs[1].length.lo <= Len(src.bytes)) =>
                       LET L == fs[1].length.lo
                           s == set_field_ptr(W, mem, sel, src, u)
                           g == get_field_ptr(R, s.mem, sel, TRUE, u)
                       IN  /\ s.err = "none"
                           /\ g.err = "none"
                           /\ g.ret = IF src.null THEN [i \in 1..L |-> 0]
                                       ELSE SubSeq(src.bytes, 1, L)
              ELSE \A v \in CheckValues :
                       LET s == set_field(W, mem, sel, v)
                           g == get_field(R, s.mem, sel, u)
                       IN  /\ s.err = "none"
                           /\ g.err = "none"
                           /\ g.ret = ModWidth(v, fs[1].type)

\* the calls that declare, rename or append fields, on the original and on
\* the copy
DeclOps == {"add_field", "rename_field", "copy_fields"}
CopyDeclOps == {"copy.add_field", "copy.rename_field", "copy.copy_fields"}

\* C24 (the states): a copy-constructed Packet is bound to the buffer of the
\* original, with its capacity and endianness, and a value written through
\* either of the two is read back through the other.
C24_CopySharesBuffer ==
    /\ q.msg_buffer \in {DefaultPacket.msg_buffer, p.msg_buffer}
    /\ WrittenIsReadBack(q, p)
    /\ WrittenIsReadBack(p, q)
\* C24 (the steps): the copy construction gives the copy the fields of the
\* original (names, ids, offsets, lengths), its cursor and its buffer, and
\* leaves the original as it is; declaring, renaming or appending fields on
\* the copy leaves the original as it is, and the other way round.
C24_CopyStepFrame ==
    /\ last'.op = "Packet(const Packet&)"
          => /\ packets'["q"].fields = p.fields
             /\ packets'["q"].fields_by_id = p.fields_by_id
             /\ packets'["q"].cur_length = p.cur_length
             /\ packets'["q"].msg_buffer = p.msg_buffer
             /\ packets'["p"] = p
    /\ last'.op \in CopyDeclOps => packets'["p"] = p
    /\ last'.op \in DeclOps => packets'["q"] = q
C24_CopyConstructed == [](C24_CopySharesBuffer) /\ [][C24_CopyStepFrame]_vars
\* after the copy was made, its tables have diverged from the original's,
\* and a value has been written through the copy to a field both hold
C24_Witness ==
    /\ last.op = "copy.set_field(value)"
    /\ last.err = "none"
    /\ q.fields # p.fields
    /\ Find(q, ByName("a")) # <<>>
    /\ Find(q, ByName("a")) = Find(p, ByName("a"))
    /\ ~Find(q, ByName("a"))[1].pointer
    /\ get_field(p, mem, ByName("a"), 0).ret = <<0, 772>>

\* C25: the sub-packet sub_packet returns has the big_endian setting of the
\* parent's buffer: a value set in a multi-byte numeric field declared in it
\* is stored as a direct codec of the parent's endianness stores it (most
\* significant byte first in a big-endian parent).
C25_SubPacketInheritsEndianness ==
    \A n \in Names :
        LET r == sub_packet(p, n)
        IN  r.err = "none" =>
              LET s == r.packet.sub_packets[n]
                  big_endian == p.msg_buffer.use_big_endian
              IN  /\ s.msg_buffer.use_big_endian = big_endian
                  /\ \A sel \in Selectors, v \in CheckValues :
                        LET fs == Find(s, sel)
                        IN  (fs # <<>> /\ ~fs[1].pointer) =>
                              set_field(s, mem, sel, v).mem
                                = DirectStore(mem, s.msg_buffer.buffer, fs[1].offset,
                                              DirectBytes(v, sizeof(fs[1].type).lo, big_endian))

\* Packet R is Packet P but for its capacity, and each numeric field reads
\* the same value through R as through P
OnlyCapacityChanged(P, R) ==
    /\ R = [P EXCEPT !.msg_buffer.max_len = Packet_max_length(R)]
    /\ \A sel \in Selectors, u \in UndefBytes :
          (Find(P, sel) # <<>> /\ ~Find(P, sel)[1].pointer)
            => get_field(R, mem, sel, u) = get_field(P, mem, sel, u)

\* C26: adjust_max_length, with or without argument, changes only the
\* capacity: endianness flag, buffer address, field tables and cursor are
\* after the call what they were before, and a numeric field reads the same
\* value before and after.
C26_AdjustChangesCapacityOnly ==
    /\ \A to_length \in CapacityInputs :
          OnlyCapacityChanged(p, adjust_max_length_to(p, to_length).packet)
    /\ OnlyCapacityChanged(p, adjust_max_length(p).packet)

\* the number of bytes the accessors of field f read or write, from
\* f.offset on: the width of its get_val / set_val for a numeric field, the
\* length memcpy / memset is given for a pointer-type field
Touched(f) == IF f.pointer THEN f.length ELSE U32(AccessWidth(f.set_val))

\* C27: in every reachable state, every byte an accessor (set_field,
\* get_field, by name or by id, value or array) reads or writes lies within
\* [0, capacity) of the Packet's buffer.
C27_AccessWithinCapacity ==
    \A sel \in Selectors :
        LET fs == Find(p, sel)
        IN  fs # <<>> => ~SumExceeds(fs[1].offset, Touched(fs[1]), Packet_max_length(p))

\* C28: the sub-packet registry is consistent with the field table: every
\* key of sub_packets names a declared pointer-type field; after
\* rename_field(old, new) on a field that has a sub-packet,
\* has_sub_packet(old) is false and sub_packet(new) returns the sub-packet
\* with the fields declared in it before, so a field declared later under
\* the name old has no sub-packet until sub_packet creates one for it.
C28_RegistryFollowsFields ==
    /\ \A n \in DOMAIN p.sub_packets : n \in DOMAIN p.fields /\ p.fields[n].pointer
    /\ \A old_name \in Names, new_name \in Names :
          LET r == rename_field(p, old_name, new_name)
          IN  (r.err = "none" /\ old_name \in DOMAIN p.sub_packets) =>
                /\ ~has_sub_packet(r.packet, old_name)
                /\ LET s == sub_packet(r.packet, new_name)
                    IN  /\ s.err = "none"
                        /\ s.packet.sub_packets[new_name] = p.sub_packets[old_name]

\* the name map and the id sequence of Packet P agree
ModesAgree(P) ==
    LET n == Len(P.fields_by_id)
    IN  /\ Cardinality(DOMAIN P.fields) = n
        /\ {P.fields[x].field_id : x \in DOMAIN P.fields} = 0..(n - 1)
        /\ \A name \in Names, u \in UndefBytes :
              LET r == get_field_id(P, name, 1, u)
                  strict == get_field_id(P, name, 0, u)
              IN  IF name \in DOMAIN P.fields
                  THEN /\ r.err = "none"
                       /\ strict = r
                       /\ r.ret[1] = 0
                       /\ r.ret[2] < n
                       /\ LET f == P.fields[name]
                              g == P.fields_by_id[r.ret[2] + 1]
                          IN  /\ f.offset = g.offset
                              /\ f.length = g.length
                              /\ f.type = g.type
                              /\ f.pointer = g.pointer
                       /\ get_field(P, mem, ByName(name), u)
                            = get_field(P, mem, ById(r.ret[2]), u)
                  ELSE /\ r = Returns(P, <<W16 - 1, W16 - 1>>)
                       /\ strict = Throws(P, "UnknownField")

\* C29: in every reachable state the two addressing modes agree, in the
\* original and in its copy: name map and id sequence hold the same number
\* of fields, the ids in the name map are 0..n-1 each once, the descriptor
\* found by name has the offset, length and kind of
\* fields_by_id[get_field_id(name)], get_field by name and by that id
\* return the same, and get_field_id of an undeclared name returns
\* 0xFFFFFFFF, or throws when no_throw is 0.
C29_AddressingModesAgree == ModesAgree(p) /\ ModesAgree(q)
\* field 0 of p has been renamed to "b", the copy holds two fields, the
\* second of them appended by copy_fields, and the buffer holds a written
\* value
C29_Witness ==
    /\ last.op = "rename_field"
    /\ last.err = "none"
    /\ get_field_id(p, "b", 0, 0).ret = <<0, 0>>
    /\ Len(q.fields_by_id) = 2
    /\ get_field_id(q, "a", 0, 0).ret = <<0, 1>>
    /\ q.fields["a"].offset = Zero
    /\ mem["A"] # ZeroMem["A"]

\* C30: every name in the name map is non-empty in every reachable state,
\* and an empty name is rejected by every operation that introduces a name:
\* by add_field and by rename_field(old, "").
C30_NoEmptyName ==
    /\ "" \notin DOMAIN p.fields
    /\ \A T \in DeclTypes, len \in LengthInputs : add_field(p, T, "", len).err # "none"
    /\ \A old_name \in Names : rename_field(p, old_name, "").err # "none"

====
